---- MODULE Spec2Model ----
(***************************************************************************)
(* Revenue ledger and payout orchestration of cgartco6/ai-business-system. *)
(*                                                                         *)
(* Modelled code:                                                          *)
(*   payment_engine/payout_agent.py       PayoutAgent                      *)
(*   payment_engine/payment_processor.py  PaymentProcessor                 *)
(*   payment_engine/payfast_gateway.py, stripe_gateway.py,                 *)
(*   payment_engine/eft_processor.py, fnb_client.py, rnb_client.py         *)
(*   src/financial_engine/revenue_tracker.py, auto_funding.py              *)
(*                                                                         *)
(* Conventions.                                                            *)
(*  - Money held by client_payments / payment_attempts is counted in       *)
(*    cents.  A percentage is counted in hundredths (Decimal('0.60') is    *)
(*    60), so a Decimal product amount * percentage is an exact integer in *)
(*    units of 1/10000 (PayoutUnit per cent), as Decimal arithmetic is     *)
(*    exact at these magnitudes.  The code writes float(amount) to the     *)
(*    money columns and reads sums back through Decimal(str(...)); for the *)
(*    two-decimal amounts and the sums of at most MaxPayments + 1 of them  *)
(*    that occur here the nearest binary64 number prints as the decimal it *)
(*    was made from, so a row holds that decimal.  Where the code returns  *)
(*    floats (AutoFundingEngine) they are binary64 numbers, see below.     *)
(*  - The store executes every statement the code issues: a column a       *)
(*    statement names exists, a column an INSERT does not list holds SQL   *)
(*    NULL.  A statement can also fail; the code's except branches decide  *)
(*    what happens then.  On the tables of data/SQL/sql.py and app.py as   *)
(*    they stand the SELECT of _get_available_revenue (no column           *)
(*    payment_id) and the INSERT of _update_client_billing (no column      *)
(*    payment_method) always take the failing branch.                      *)
(*  - Fields marked "history" are not columns of the store; they record,   *)
(*    for the properties below, which call produced a row.                 *)
(***************************************************************************)
EXTENDS Integers, Sequences, FiniteSets, TLC

(***************************************************************************)
(* Bounds of the model.                                                    *)
(***************************************************************************)
MaxPayments == 1        \* client_payments rows
MaxCycles == 2          \* process_daily_payouts invocations
MaxDay == 1             \* days the clock advances
MaxAttempts == 2        \* payment_attempts rows
MaxDeliveries == 3      \* deliveries of one webhook in a row
MaxRevenue == 15        \* largest argument of an allocation computation
MaxAllocationRows == 4  \* revenue_allocations rows
MaxMillions == 10       \* largest total revenue, in millions of cents
MaxLateDay == 2         \* days of the daily schedule: 0..MaxLateDay
MaxLatePayments == 2    \* client_payments rows of the daily schedule
MaxFundingTransfers == 5 \* _execute_bank_transfer calls that succeeded
MaxLeadCalls == 3       \* generate_leads calls on one LeadGenerator
MaxFundingRows == 8     \* revenue_allocations rows of daily business cycles

Procs == {1, 2}                        \* concurrent callers of process_daily_payouts
Clients == {1}
Amounts == {99999, 100000}             \* 999.99 and 1000.00, in cents

(***************************************************************************)
(* Configuration constants of the code.                                    *)
(***************************************************************************)
PayoutUnit == 100                      \* 1 cent = 100 units of 1/10000
minimum_payout == 100000               \* Decimal('1000.00'), in cents
WindowDays == 1                        \* date('now', '-1 day')

CategoryOrder == <<"owner", "ai_fund", "reserve">>
Categories == {CategoryOrder[i] : i \in 1..Len(CategoryOrder)}

allocation_rules == [owner |-> 60, ai_fund |-> 20, reserve |-> 20]

NULL == <<>>                           \* SQL NULL / Python None

encrypted_account_001 == <<"e","n","c","r","y","p","t","e","d","_","a","c","c","o","u","n","t","_","0","0","1">>
encrypted_account_002 == <<"e","n","c","r","y","p","t","e","d","_","a","c","c","o","u","n","t","_","0","0","2">>
encrypted_account_003 == <<"e","n","c","r","y","p","t","e","d","_","a","c","c","o","u","n","t","_","0","0","3">>

\* PayoutAgent._load_encrypted_account
_load_encrypted_account(account_type) ==
    CASE account_type = "owner_fnb" ->
           [account_name |-> "Owner Personal Account",
            account_number |-> encrypted_account_001, branch_code |-> "250655"]
      [] account_type = "ai_fund_rnb" ->
           [account_name |-> "CostByte AI Development Fund",
            account_number |-> encrypted_account_002, branch_code |-> "198765"]
      [] account_type = "reserve_fnb" ->
           [account_name |-> "CostByte Business Reserve",
            account_number |-> encrypted_account_003, branch_code |-> "250655"]

\* PayoutAgent._get_destination_account
_get_destination_account(category) ==
    CASE category = "owner" -> _load_encrypted_account("owner_fnb")
      [] category = "ai_fund" -> _load_encrypted_account("ai_fund_rnb")
      [] category = "reserve" -> _load_encrypted_account("reserve_fnb")

\* Python's   sub in s   on strings, held as sequences of characters
Contains(sub, s) ==
    \E i \in 1..(Len(s) - Len(sub) + 1) : SubSeq(s, i, i + Len(sub) - 1) = sub

VARIABLES
    today,                \* the date of datetime.now() / date('now'), a day number
    client_payments,      \* table client_payments, in id order
    payment_attempts,     \* table payment_attempts, in id order
    payout_transactions,  \* table payout_transactions, in id order
    pc,                   \* position of each process_daily_payouts caller
    cycle,                \* locals of each running process_daily_payouts call
    cycle_log,            \* history: one entry per process_daily_payouts call
    transfers,            \* history: transfer_funds calls made on the bank clients
    stripe_intents,       \* number of PaymentIntents Stripe has created
    last_call,            \* history: the last process_payment call: its request, what
                          \*   became of the gateway call, and its result
    last_webhook,         \* history: the last handle_payment_webhook call, its result
                          \*   and how many times in a row it was delivered
    poll_log,             \* history: attempts check_eft_payments reported completed
    last_status,          \* history: the attempt the last get_payment_status call read
                          \*   and what the call returned
    revenue_allocations,  \* table revenue_allocations, in id order
    allocation_call,      \* history: the last call of an allocation computation,
                          \*   its argument and what it returned
    leads_generated,      \* LeadGenerator.leads_generated
    leads,                \* table leads, keyed by id
    leads_log,            \* history: what each generate_leads call was asked for
                          \*   and the leads it returned
    pending_transfers,    \* the running execute_funding_transfers call and what
                          \*   its SELECT fetched
    funding_transfers     \* history: the _execute_bank_transfer calls that succeeded

payoutState == <<payout_transactions, pc, cycle, cycle_log, transfers>>
paymentState == <<payment_attempts, stripe_intents, last_call, last_webhook,
                  poll_log, last_status>>

allocationState == <<revenue_allocations, allocation_call>>

leadState == <<leads_generated, leads, leads_log>>

fundingState == <<pending_transfers, funding_transfers>>

agentState == <<leadState, fundingState>>

vars == <<today, client_payments, payoutState, paymentState, allocationState,
          agentState>>

Banks == {"FNB", "RNB"}
BankAnswers == {"success", "unavailable"}

RECURSIVE SumAmount(_)
\* SUM(amount) over a sequence of rows
SumAmount(rows) ==
    IF rows = <<>> THEN 0 ELSE rows[1].amount + SumAmount(Tail(rows))

RECURSIVE SumOver(_, _)
\* SUM(amount) over the rows of client_payments with the ids in S
SumOver(rows, S) ==
    IF S = {} THEN 0
    ELSE LET i == CHOOSE j \in S : TRUE
         IN rows[i].amount + SumOver(rows, S \ {i})

\* a gateway reference: the caller's payment_reference, a Stripe intent id, an
\* EFT reference CBT<client><timestamp>, or None
Ref(kind, x, y) == [kind |-> kind, x |-> x, y |-> y]
NoRef == Ref("None", 0, 0)
CallerRefs == {Ref("caller", 1, 0)}
UnknownRef == Ref("unknown", 0, 0)     \* a reference no payment was made with

\* the references a webhook payload of each gateway can carry
WebhookRefs(gateway) ==
    CASE gateway = "payfast" -> CallerRefs \cup {UnknownRef}
      [] gateway = "stripe" -> {Ref("pi", n, 0) : n \in 1..MaxAttempts} \cup {UnknownRef}
      [] OTHER -> {UnknownRef}

IdleCycle == [id |-> 0, available_revenue |-> 0, selected |-> {},
              allocations |-> <<>>, payout_results |-> <<>>, bank |-> <<>>]

\* no execute_funding_transfers call is between its SELECT and its return
NoFundingCall == [active |-> FALSE, pending |-> <<>>]

Init ==
    /\ today = 0
    /\ client_payments = <<>>
    /\ payment_attempts = <<>>
    /\ payout_transactions = <<>>
    /\ pc = [p \in Procs |-> "idle"]
    /\ cycle = [p \in Procs |-> IdleCycle]
    /\ cycle_log = <<>>
    /\ transfers = <<>>
    /\ stripe_intents = 0
    /\ last_call = NULL
    /\ last_webhook = NULL
    /\ poll_log = {}
    /\ last_status = NULL
    /\ revenue_allocations = <<>>
    /\ allocation_call = NULL
    /\ leads_generated = 0
    /\ leads = {}
    /\ leads_log = <<>>
    /\ pending_transfers = NoFundingCall
    /\ funding_transfers = <<>>

(***************************************************************************)
(* The clock: datetime.now() and date('now') advance by whole days.        *)
(***************************************************************************)
Tomorrow ==
    /\ today' = today + 1
    /\ UNCHANGED <<agentState, allocationState, client_payments, payoutState, paymentState>>

AdvanceDay == today < MaxDay /\ Tomorrow

(***************************************************************************)
(* RevenueTracker.record_client_payment (revenue_tracker.py:11-37), with   *)
(* payment_date defaulting to datetime.now().  A failed INSERT writes no   *)
(* row and returns False, which leaves every variable as it is.  The       *)
(* summary tables it refreshes afterwards are functions of client_payments *)
(* that no other modelled operation reads.                                 *)
(***************************************************************************)
record_client_payment(client_id, amount) ==
    /\ client_payments' =
         Append(client_payments,
                [client_id |-> client_id, amount |-> amount,
                 payment_date |-> today, source_attempt |-> NULL])
    /\ UNCHANGED <<agentState, allocationState, today, payoutState, paymentState>>

\* a client payment is ledgered
LedgerPayment ==
    \E c \in Clients, a \in Amounts :
        Len(client_payments) < MaxPayments /\ record_client_payment(c, a)

(***************************************************************************)
(* PayoutAgent (payout_agent.py).                                          *)
(***************************************************************************)

\* payment_id values of   SELECT payment_id FROM payout_transactions
\*                        WHERE status = 'completed'     (payout_agent.py:108)
CompletedPaymentIds ==
    {payout_transactions[i].payment_id :
        i \in {j \in 1..Len(payout_transactions) :
                  payout_transactions[j].status = "completed"}}

\* id NOT IN (subquery) in SQL's three-valued logic: true only when id equals
\* no value of the subquery and the subquery yields no NULL
NotIn(id, S) == (<<id>> \notin S) /\ (NULL \notin S)

\* the rows the WHERE clause of payout_agent.py:103-110 keeps
EligiblePayments ==
    {i \in 1..Len(client_payments) :
        /\ client_payments[i].payment_date >= today - WindowDays
        /\ NotIn(i, CompletedPaymentIds)}

\* an except branch that answers the threshold instead of 0.00
_get_available_revenue_FailOpen(query_ok) ==
    IF query_ok THEN SumOver(client_payments, EligiblePayments) ELSE minimum_payout

\* PayoutAgent._get_available_revenue; query_ok = FALSE is the except branch
_get_available_revenue(query_ok) ==
    IF query_ok THEN SumOver(client_payments, EligiblePayments) ELSE 0

\* the comparison that also refuses the threshold itself
BelowMinimum_Inclusive(available_revenue) == available_revenue <= minimum_payout

\* the comparison with the threshold moved down by one cent
BelowMinimum_OffByOne(available_revenue) == available_revenue < minimum_payout - 1

\* the comparison of payout_agent.py:63
BelowMinimum(available_revenue) == available_revenue < minimum_payout

\* the computation with the percentage of owner for every category
_calculate_allocations_OwnerShare(total_revenue) ==
    [c \in Categories |->
        [amount |-> total_revenue * allocation_rules["owner"],
         percentage |-> allocation_rules[c],
         account |-> _get_destination_account(c)]]

\* PayoutAgent._calculate_allocations: amount = total_revenue * percentage
_calculate_allocations(total_revenue) ==
    [c \in Categories |->
        [amount |-> total_revenue * allocation_rules[c],
         percentage |-> allocation_rules[c],
         account |-> _get_destination_account(c)]]

\* FNBClient.transfer_funds / RNBClient.transfer_funds: the result dictionary
\* for the answer of the bank (the except branch returns success False)
transfer_funds(bank, answer) ==
    IF answer = "success"
    THEN [success |-> TRUE, reference |-> IF bank = "FNB" THEN "PYT" ELSE "AIF"]
    ELSE [success |-> FALSE, reference |-> ""]

\* which client payout_agent.py:152-168 picks for an account
BankOf(account) ==
    IF Contains(<<"f","n","b">>, account.account_number) THEN "FNB"
    ELSE IF Contains(<<"r","n","b">>, account.account_number) THEN "RNB"
    ELSE "none"

\* one iteration of the loop of PayoutAgent._execute_payouts
ExecuteOne(category, allocation, bank) ==
    LET b == BankOf(allocation.account)
    IN IF b = "none"
       THEN [success |-> FALSE, reference |-> ""]     \* 'Unknown bank'
       ELSE transfer_funds(b, bank[b])

\* PayoutAgent._execute_payouts: the results dictionary
_execute_payouts(allocations, bank) ==
    [c \in Categories |-> ExecuteOne(c, allocations[c], bank)]

\* history: the transfer_funds calls _execute_payouts makes, in loop order
TransferCalls(id, allocations, bank) ==
    LET called == SelectSeq(CategoryOrder,
                            LAMBDA c : BankOf(allocations[c].account) # "none")
    IN [i \in 1..Len(called) |->
           [cycle |-> id, category |-> called[i],
            bank |-> BankOf(allocations[called[i]].account),
            amount |-> allocations[called[i]].amount,
            answer |-> bank[BankOf(allocations[called[i]].account)]]]

\* a row that is written as completed whatever the transfer returned
PayoutRow_AlwaysCompleted(id, category, allocation, result) ==
    [category |-> category, amount |-> allocation.amount,
     percentage |-> allocation.percentage,
     destination_account |-> allocation.account.account_name,
     status |-> "completed", reference |-> result.reference,
     payout_date |-> today, payment_id |-> NULL, cycle |-> id]

\* the row PayoutAgent._record_payouts inserts for a category
PayoutRow(id, category, allocation, result) ==
    [category |-> category,
     amount |-> allocation.amount,
     percentage |-> allocation.percentage,
     destination_account |-> allocation.account.account_name,
     status |-> IF result.success THEN "completed" ELSE "failed",
     reference |-> result.reference,
     payout_date |-> today,
     payment_id |-> NULL,
     cycle |-> id]                                   \* history

\* a result that tells success and the total only
DailyPayoutResult_PassFail(available_revenue, allocations, payout_results) ==
    [success |-> TRUE, total_payout |-> available_revenue, payout_results |-> <<>>]

\* the dictionary process_daily_payouts returns after _record_payouts
DailyPayoutResult(available_revenue, allocations, payout_results) ==
    [success |-> TRUE, total_payout |-> available_revenue,
     payout_results |-> payout_results]

\* process_daily_payouts up to the threshold test and _calculate_allocations
PayoutSelect(p, query_ok) ==
    /\ pc[p] = "idle"
    /\ LET available_revenue == _get_available_revenue(query_ok)
           selected == IF query_ok THEN EligiblePayments ELSE {}
           id == Len(cycle_log) + 1
       IN IF BelowMinimum(available_revenue)
          THEN /\ cycle_log' = Append(cycle_log,
                      [available_revenue |-> available_revenue,
                       selected |-> selected, query_ok |-> query_ok,
                       result |-> "below_minimum", returned |-> NULL])
               /\ UNCHANGED <<pc, cycle>>
          ELSE /\ cycle_log' = Append(cycle_log,
                      [available_revenue |-> available_revenue,
                       selected |-> selected, query_ok |-> query_ok,
                       result |-> "running", returned |-> NULL])
               /\ pc' = [pc EXCEPT ![p] = "allocated"]
               /\ cycle' = [cycle EXCEPT ![p] =
                      [id |-> id, available_revenue |-> available_revenue,
                       selected |-> selected,
                       allocations |-> _calculate_allocations(available_revenue),
                       payout_results |-> <<>>, bank |-> <<>>]]
    /\ UNCHANGED <<agentState, allocationState, today, client_payments, paymentState, payout_transactions,
                   transfers>>

\* process_daily_payouts: the call of _execute_payouts; bank is what each bank
\* answers to a transfer during this call
PayoutExecute(p, bank) ==
    /\ pc[p] = "allocated"
    /\ pc' = [pc EXCEPT ![p] = "executed"]
    /\ cycle' = [cycle EXCEPT
                   ![p].payout_results = _execute_payouts(cycle[p].allocations, bank),
                   ![p].bank = bank]
    /\ transfers' = transfers \o TransferCalls(cycle[p].id, cycle[p].allocations, bank)
    /\ UNCHANGED <<agentState, allocationState, today, client_payments, paymentState, payout_transactions,
                   cycle_log>>

\* process_daily_payouts: the call of _record_payouts and the return.  inserted
\* is the number of INSERTs that run before one fails (all of them when none
\* fails); the except branch neither rolls back nor re-raises.
PayoutRecord(p, inserted) ==
    /\ pc[p] = "executed"
    /\ payout_transactions' = payout_transactions \o
          [i \in 1..inserted |->
              PayoutRow(cycle[p].id, CategoryOrder[i],
                        cycle[p].allocations[CategoryOrder[i]],
                        cycle[p].payout_results[CategoryOrder[i]])]
    /\ cycle_log' = [cycle_log EXCEPT
                       ![cycle[p].id].result = "success",
                       ![cycle[p].id].returned =
                           DailyPayoutResult(cycle[p].available_revenue,
                                             cycle[p].allocations, cycle[p].payout_results)]
    /\ pc' = [pc EXCEPT ![p] = "idle"]
    /\ cycle' = [cycle EXCEPT ![p] = IdleCycle]
    /\ UNCHANGED <<agentState, allocationState, today, client_payments, paymentState, transfers>>

PayoutNext ==
    \/ AdvanceDay
    \/ LedgerPayment
    \/ \E p \in Procs, query_ok \in BOOLEAN :
          Len(cycle_log) < MaxCycles /\ PayoutSelect(p, query_ok)
    \/ \E p \in Procs, bank \in [Banks -> BankAnswers] : PayoutExecute(p, bank)
    \/ \E p \in Procs, inserted \in 0..Len(CategoryOrder) : PayoutRecord(p, inserted)

SpecPayout == Init /\ [][PayoutNext]_vars

\* the daily cycle as payout_scheduler of app.py runs it: one caller, one call
\* at a time
SequentialNext ==
    \/ AdvanceDay
    \/ LedgerPayment
    \/ \E query_ok \in BOOLEAN : Len(cycle_log) < MaxCycles /\ PayoutSelect(1, query_ok)
    \/ \E bank \in [Banks -> BankAnswers] : PayoutExecute(1, bank)
    \/ \E inserted \in 0..Len(CategoryOrder) : PayoutRecord(1, inserted)

SpecSequential == Init /\ [][SequentialNext]_vars

(***************************************************************************)
(* PaymentProcessor and its gateways (payment_processor.py,                *)
(* payfast_gateway.py, stripe_gateway.py, eft_processor.py).               *)
(***************************************************************************)
Methods == {"payfast", "stripe", "eft", "bitcoin"}
SevenDays == 7                         \* datetime('now', '-7 days')
Seconds == {0, 1}                      \* readings of the seconds of datetime.now()
SecondsPerDay == 2

PayfastRequired == {"return_url", "cancel_url", "notify_url"}
EftRequired == {"bank_name", "account_holder", "reference"}

\* payment_details as the code reads it: the keys present and the value of the
\* key payment_reference (NoRef when absent); a client_id key, when present,
\* holds the client the call is made for
Detail(keys, payment_reference) == [keys |-> keys, payment_reference |-> payment_reference]
DetailsFor(method) ==
    CASE method = "payfast" ->
           {Detail(PayfastRequired, r) : r \in CallerRefs \cup {NoRef}}
              \cup {Detail({"return_url"}, NoRef)}
      [] method = "stripe" ->
           {Detail({"payment_method_id"}, NoRef), Detail({}, NoRef)}
      [] method = "eft" ->
           {Detail(EftRequired, NoRef), Detail(EftRequired \cup {"client_id"}, NoRef),
            Detail({"bank_name"}, NoRef)}
      [] OTHER -> {Detail(PayfastRequired, NoRef)}

\* the test of one required key in place of all of them
_validate_payfast_details_AnyKey(details) == PayfastRequired \cap details.keys # {}

\* PaymentProcessor._validate_payfast_details: all(key in details ...)
_validate_payfast_details(details) == PayfastRequired \subseteq details.keys
_validate_stripe_details(details) ==
    "payment_method_id" \in details.keys \/ "setup_future_usage" \in details.keys
_validate_eft_details(details) == EftRequired \subseteq details.keys

\* PaymentProcessor._validate_payment_details: no validator means False
_validate_payment_details(payment_method, details) ==
    CASE payment_method = "payfast" -> _validate_payfast_details(details)
      [] payment_method = "stripe" -> _validate_stripe_details(details)
      [] payment_method = "eft" -> _validate_eft_details(details)
      [] OTHER -> FALSE

\* PayFastGateway.create_payment_request: m_payment_id is dropped when empty
create_payment_request(amount, details) ==
    [success |-> TRUE, payment_id |-> details.payment_reference,
     gateway |-> "payfast", status |-> "pending"]

\* the status of a PaymentIntent created without confirmation
StripeCreatedStatus == "requires_payment_method"

\* StripeGateway.create_payment_intent; answer is what the Stripe API does:
\* it creates the intent or raises a StripeError
create_payment_intent(amount, details, answer) ==
    IF answer = "created"
    THEN [success |-> TRUE, payment_id |-> Ref("pi", stripe_intents + 1, 0),
          gateway |-> "stripe", status |-> StripeCreatedStatus]
    ELSE [success |-> FALSE, payment_id |-> NoRef,
          gateway |-> "stripe", status |-> "pending"]

\* EFTProcessor._generate_payment_reference with the generated invoice number:
\* the client id of the details and the timestamp, without the random suffix
_generate_payment_reference(client_id, second) ==
    Ref("CBT", client_id, today * SecondsPerDay + second)

\* EFTProcessor.process_eft_payment
process_eft_payment(client_id, amount, details, second) ==
    [success |-> TRUE,
     payment_id |-> _generate_payment_reference(
                      IF "client_id" \in details.keys THEN client_id ELSE 0, second),
     gateway |-> "eft", status |-> "pending"]

\* the row PaymentProcessor._record_payment_attempt inserts; status is
\* gateway_result.get('status', 'pending')
AttemptRow(client_id, amount, method, gateway_result) ==
    [client_id |-> client_id, amount |-> amount, payment_method |-> method,
     gateway |-> gateway_result.gateway,
     gateway_reference |-> gateway_result.payment_id,
     status |-> gateway_result.status,
     created_at |-> today]

\* the row PaymentProcessor._update_client_billing inserts
BillingRow(client_id, amount, attempt) ==
    [client_id |-> client_id, amount |-> amount, payment_date |-> today,
     source_attempt |-> attempt]                       \* history

\* history: the arguments of a process_payment call that the claims read
Request(amount, payment_method, details) ==
    [amount |-> amount, payment_method |-> payment_method, keys |-> details.keys]

StripeAnswers == {"created", "StripeError", "raised"}

\* PaymentProcessor.process_payment.  attempt_ok and billing_ok tell whether
\* the INSERT of _record_payment_attempt and of _update_client_billing run.
process_payment(client_id, amount, payment_method, details, stripe, second, attempt_ok, billing_ok) ==
    /\ Len(payment_attempts) < MaxAttempts
    /\ Len(client_payments) < MaxPayments
    /\ stripe_intents < MaxAttempts
    /\ IF ~_validate_payment_details(payment_method, details)
       THEN /\ last_call' = [success |-> FALSE, error |-> "Invalid payment details",
                             attempt |-> NULL, billed |-> FALSE,
                             request |-> Request(amount, payment_method, details),
                             gateway_call |-> "not called"]
            /\ UNCHANGED <<payment_attempts, client_payments, stripe_intents>>
       ELSE IF payment_method = "stripe" /\ stripe = "raised"
       THEN \* an exception that is no StripeError reaches the outer except
            /\ last_call' = [success |-> FALSE, error |-> "exception",
                             attempt |-> NULL, billed |-> FALSE,
                             request |-> Request(amount, payment_method, details),
                             gateway_call |-> "raised"]
            /\ UNCHANGED <<payment_attempts, client_payments, stripe_intents>>
       ELSE LET result ==
                  CASE payment_method = "payfast" -> create_payment_request(amount, details)
                    [] payment_method = "stripe" -> create_payment_intent(amount, details, stripe)
                    [] payment_method = "eft" -> process_eft_payment(client_id, amount, details, second)
                attempt == IF attempt_ok THEN <<Len(payment_attempts) + 1>> ELSE NULL
                billed == result.success /\ billing_ok
            IN /\ stripe_intents' =
                    IF payment_method = "stripe" /\ result.success
                    THEN stripe_intents + 1 ELSE stripe_intents
               /\ payment_attempts' =
                    IF attempt_ok
                    THEN Append(payment_attempts,
                                AttemptRow(client_id, amount, payment_method, result))
                    ELSE payment_attempts
               /\ client_payments' =
                    IF billed
                    THEN Append(client_payments, BillingRow(client_id, amount, attempt))
                    ELSE client_payments
               \* payment_record['id'] raises KeyError when the attempt was not recorded
               /\ last_call' =
                    IF attempt_ok
                    THEN [success |-> result.success, error |-> "",
                          attempt |-> attempt, billed |-> billed,
                          request |-> Request(amount, payment_method, details),
                          gateway_call |-> IF result.success THEN "success" ELSE "error"]
                    ELSE [success |-> FALSE, error |-> "exception",
                          attempt |-> NULL, billed |-> billed,
                          request |-> Request(amount, payment_method, details),
                          gateway_call |-> IF result.success THEN "success" ELSE "error"]
    /\ UNCHANGED <<agentState, allocationState, today, payoutState, last_webhook, poll_log,
                   last_status>>

\* PayFastGateway._generate_signature: the MD5 digest of the sorted parameter
\* string and the passphrase, kept as the pair it is computed from
_generate_signature(data, passphrase) == [data |-> data, passphrase |-> passphrase]

PayfastPassphrase == "testpassphrase"  \* payfast_gateway.py:22
StripeWebhookSecret == "whsec_..."     \* stripe_gateway.py:17

\* the verification without the comparison of signatures
payfast_verify_webhook_NoSignature(payload, signature) ==
    IF payload.payment_status # "COMPLETE" THEN FALSE
    ELSE TRUE

\* PayFastGateway.verify_webhook
payfast_verify_webhook(payload, signature) ==
    IF _generate_signature(payload, PayfastPassphrase) # signature THEN FALSE
    ELSE IF payload.payment_status # "COMPLETE" THEN FALSE
    ELSE TRUE

\* StripeGateway.verify_webhook: construct_event raises on a signature that
\* does not verify; only payment_intent.succeeded events answer True
stripe_verify_webhook(payload, signature) ==
    IF _generate_signature(payload, StripeWebhookSecret) # signature THEN FALSE
    ELSE payload.type = "payment_intent.succeeded"

\* webhook payloads: PayFast reads payment_status, Stripe reads the event type
Payloads(gateway) ==
    CASE gateway = "payfast" ->
           [reference : WebhookRefs(gateway), payment_status : {"COMPLETE", "FAILED"},
            type : {""}]
      [] gateway = "stripe" ->
           [reference : WebhookRefs(gateway), payment_status : {""},
            type : {"payment_intent.succeeded", "payment_intent.payment_failed"}]
      [] OTHER ->
           [reference : WebhookRefs(gateway), payment_status : {"COMPLETE"}, type : {""}]
GatewaySecret(gateway) ==
    IF gateway = "stripe" THEN StripeWebhookSecret ELSE PayfastPassphrase
Signatures(gateway, payload) ==
    {_generate_signature(payload, GatewaySecret(gateway)),
     _generate_signature(payload, "forged")}

\* the value PaymentProcessor.handle_payment_webhook returns
WebhookResult(gateway, payload, signature) ==
    CASE gateway = "payfast" -> payfast_verify_webhook(payload, signature)
      [] gateway = "stripe" -> stripe_verify_webhook(payload, signature)
      [] OTHER -> FALSE

\* PaymentProcessor.handle_payment_webhook: it answers and writes nothing
handle_payment_webhook(gateway, payload, signature) ==
    LET result == WebhookResult(gateway, payload, signature)
        delivery == [gateway |-> gateway, payload |-> payload,
                     signature |-> signature, result |-> result]
        replay == last_webhook # NULL /\ last_webhook.delivery = delivery
    IN /\ replay => last_webhook.deliveries < MaxDeliveries
       /\ last_webhook' =
            [delivery |-> delivery,
             deliveries |-> IF replay THEN last_webhook.deliveries + 1 ELSE 1]
       /\ UNCHANGED <<agentState, allocationState, today, client_payments, payoutState, payment_attempts,
                      stripe_intents, last_call, poll_log, last_status>>

\* the rows the query of EFTProcessor.check_eft_payments returns
PendingEft ==
    {i \in 1..Len(payment_attempts) :
        /\ payment_attempts[i].payment_method = "eft"
        /\ payment_attempts[i].status = "pending"
        /\ payment_attempts[i].created_at >= today - SevenDays}

\* EFTProcessor.check_eft_payments: received are the pending attempts for which
\* random.random() > 0.5; it returns them and writes nothing
check_eft_payments(received) ==
    /\ received \subseteq PendingEft
    /\ poll_log' = poll_log \cup received
    /\ UNCHANGED <<agentState, allocationState, today, client_payments, payoutState, payment_attempts,
                   stripe_intents, last_call, last_webhook, last_status>>

\* the values get_payment_status is called with: the id of an attempt or a
\* gateway reference
StatusKeys ==
    {Ref("id", i, 0) : i \in 1..MaxAttempts} \cup WebhookRefs("payfast")
       \cup WebhookRefs("stripe")

\* the rows of   SELECT gateway, gateway_reference FROM payment_attempts
\*               WHERE id = ? OR gateway_reference = ?
StatusRows(payment_id) ==
    {i \in 1..Len(payment_attempts) :
        \/ payment_id = Ref("id", i, 0)
        \/ /\ payment_attempts[i].gateway_reference # NoRef
           /\ payment_attempts[i].gateway_reference = payment_id}

\* what PaymentIntent.retrieve answers: the status of the intent, or it raises
\* a StripeError
StripeRetrieveAnswers == {"succeeded", "StripeError"}

\* PaymentProcessor.get_payment_status: it reads the attempt, asks the gateway
\* (PayFastGateway.get_payment_status, StripeGateway.get_payment_intent) and
\* writes nothing
get_payment_status(payment_id, stripe) ==
    /\ last_status' =
         IF StatusRows(payment_id) = {}
         THEN [attempt |-> 0, success |-> FALSE, status |-> "Payment not found"]
         ELSE LET i == CHOOSE i \in StatusRows(payment_id) :
                          \A j \in StatusRows(payment_id) : i <= j
                  row == payment_attempts[i]
              IN CASE row.gateway = "payfast" ->
                        [attempt |-> i, success |-> TRUE, status |-> "completed"]
                   [] row.gateway = "stripe" ->
                        IF stripe = "StripeError"
                        THEN [attempt |-> i, success |-> FALSE, status |-> "StripeError"]
                        ELSE [attempt |-> i, success |-> TRUE, status |-> stripe]
                   [] OTHER ->
                        [attempt |-> i, success |-> FALSE,
                         status |-> "Status check not available for this gateway"]
    /\ UNCHANGED <<agentState, allocationState, today, client_payments, payoutState, payment_attempts,
                   stripe_intents, last_call, last_webhook, poll_log>>

StatusQuery ==
    \E payment_id \in StatusKeys, stripe \in StripeRetrieveAnswers :
       get_payment_status(payment_id, stripe)

\* process_payment with the inputs the method reads; oks are the outcomes of
\* the two INSERTs that can occur
PaymentCall(m, oks) ==
    \E c \in Clients, a \in Amounts, d \in DetailsFor(m),
       attempt_ok \in oks, billing_ok \in oks :
       \E stripe \in IF m = "stripe" THEN StripeAnswers ELSE {"created"},
          second \in IF m = "eft" THEN Seconds ELSE {0} :
            process_payment(c, a, m, d, stripe, second, attempt_ok, billing_ok)

WebhookDelivery(g) ==
    \E payload \in Payloads(g) :
       \E signature \in Signatures(g, payload) :
          handle_payment_webhook(g, payload, signature)

\* a payload without the fields the handlers read: payment_status reads as
\* None for PayFast, and no event is parsed from it for Stripe
MalformedPayload == [reference |-> NoRef, payment_status |-> "", type |-> ""]

\* a notification of any content arrives under the name of a gateway
AnyDelivery(g) ==
    \E payload \in Payloads(g) \cup {MalformedPayload} :
       \E signature \in Signatures(g, payload) :
          handle_payment_webhook(g, payload, signature)

EftPoll == \E received \in SUBSET PendingEft : check_eft_payments(received)

\* payments are requested, recorded by the revenue tracker and polled
PaymentNext ==
    \/ \E m \in Methods : PaymentCall(m, BOOLEAN)
    \/ LedgerPayment
    \/ EftPoll

SpecPayment == Init /\ [][PaymentNext]_vars

\* payments are requested while the store works, and are settled: webhooks
\* are delivered and EFT payments are polled
SettlementNext ==
    \/ \E m \in Methods : PaymentCall(m, {TRUE})
    \/ \E g \in {"payfast", "stripe", "eft"} : WebhookDelivery(g)
    \/ EftPoll

SpecSettlement == Init /\ [][SettlementNext]_vars

\* payments are requested through the gateways that notify, and notifications
\* of every kind arrive
WebhookNext ==
    \/ \E m \in {"payfast", "stripe"} : PaymentCall(m, {TRUE})
    \/ \E g \in {"payfast", "stripe", "eft"} : AnyDelivery(g)

SpecWebhook == Init /\ [][WebhookNext]_vars

\* the ways an attempt could be resolved, each of them scheduled fairly:
\* webhooks keep being delivered, the EFT poll and the status query keep being
\* invoked
ResolutionNext ==
    \/ \E m \in Methods : PaymentCall(m, {TRUE})
    \/ \E g \in {"payfast", "stripe", "eft"} : WebhookDelivery(g)
    \/ EftPoll
    \/ StatusQuery

SpecResolution ==
    /\ Init /\ [][ResolutionNext]_vars
    /\ WF_vars(\E g \in {"payfast", "stripe", "eft"} : WebhookDelivery(g))
    /\ WF_vars(EftPoll)
    /\ WF_vars(StatusQuery)

\* the amounts a caller passes to process_payment, in cents: the code reads
\* amount without testing it
RequestAmounts == {-1, 0} \cup Amounts

\* process_payment with any amount, any details and any outcome of its INSERTs
PaymentRequest(m) ==
    \E c \in Clients, a \in RequestAmounts, d \in DetailsFor(m),
       attempt_ok \in BOOLEAN, billing_ok \in BOOLEAN :
       \E stripe \in IF m = "stripe" THEN StripeAnswers ELSE {"created"},
          second \in IF m = "eft" THEN Seconds ELSE {0} :
            process_payment(c, a, m, d, stripe, second, attempt_ok, billing_ok)

\* payments are requested with every kind of argument
RequestNext == \E m \in Methods : PaymentRequest(m)

SpecRequest == Init /\ [][RequestNext]_vars

\* payments are requested with well-formed and malformed details, day after
\* day, while the store works
DetailsNext ==
    \/ AdvanceDay
    \/ \E m \in Methods : PaymentCall(m, {TRUE})

SpecDetails == Init /\ [][DetailsNext]_vars

(***************************************************************************)
(* Allocation computations: PayoutAgent._calculate_allocations called on   *)
(* its own, and AutoFundingEngine.process_revenue_allocation               *)
(* (auto_funding.py), which returns float(allocation) for every category.  *)
(*                                                                         *)
(* A float is an IEEE 754 binary64 number.  The values that occur here are *)
(* zero and positive normal numbers, held as [m, e] for m * 2^e with       *)
(* 2^52 <= m < 2^53 (zero is m = 0, e = 0).  m does not fit a machine      *)
(* integer of TLC, so it is a natural number in base LimbBase,             *)
(* least significant limb first, without leading zero limbs.               *)
(***************************************************************************)
LimbBits == 15
LimbBase == 32768                      \* 2^LimbBits

RECURSIVE Big(_)
\* the natural number n as limbs
Big(n) == IF n = 0 THEN <<>> ELSE <<n % LimbBase>> \o Big(n \div LimbBase)

RECURSIVE Trim(_)
Trim(x) ==
    IF x = <<>> \/ x[Len(x)] # 0 THEN x ELSE Trim(SubSeq(x, 1, Len(x) - 1))

RECURSIVE AddCarry(_, _, _)
AddCarry(x, y, carry) ==
    IF x = <<>> /\ y = <<>> THEN Big(carry)
    ELSE LET sum == (IF x = <<>> THEN 0 ELSE Head(x))
                      + (IF y = <<>> THEN 0 ELSE Head(y)) + carry
         IN <<sum % LimbBase>> \o
              AddCarry(IF x = <<>> THEN x ELSE Tail(x),
                       IF y = <<>> THEN y ELSE Tail(y), sum \div LimbBase)

\* x + y
BigAdd(x, y) == AddCarry(x, y, 0)

RECURSIVE MulCarry(_, _, _)
MulCarry(x, k, carry) ==
    IF x = <<>> THEN Big(carry)
    ELSE LET product == Head(x) * k + carry
         IN <<product % LimbBase>> \o MulCarry(Tail(x), k, product \div LimbBase)

\* x * k for a natural number k < LimbBase
BigMul(x, k) == IF k = 0 THEN <<>> ELSE MulCarry(x, k, 0)

\* quotient and remainder of x by a natural number 0 < k < LimbBase
BigDivMod(x, k) ==
    LET step[i \in 0..Len(x)] ==
            IF i = 0 THEN [q |-> <<>>, r |-> 0]
            ELSE LET current == step[i - 1].r * LimbBase + x[Len(x) - i + 1]
                 IN [q |-> <<current \div k>> \o step[i - 1].q, r |-> current % k]
    IN [q |-> Trim(step[Len(x)].q), r |-> step[Len(x)].r]

\* x < y
BigLess(x, y) ==
    IF Len(x) # Len(y) THEN Len(x) < Len(y)
    ELSE \E i \in 1..Len(x) :
            x[i] < y[i] /\ \A j \in (i + 1)..Len(x) : x[j] = y[j]

BigOdd(x) == x # <<>> /\ x[1] % 2 = 1

RECURSIVE ShiftLeft(_, _)
\* x * 2^k
ShiftLeft(x, k) ==
    IF k = 0 \/ x = <<>> THEN x
    ELSE IF k >= LimbBits THEN ShiftLeft(<<0>> \o x, k - LimbBits)
    ELSE ShiftLeft(BigMul(x, 2), k - 1)

Two52 == <<0, 0, 0, 128>>              \* 2^52 = 128 * LimbBase^3
Two53 == <<0, 0, 0, 256>>              \* 2^53
FloatZero == [m |-> <<>>, e |-> 0]

\* a rounded significand that reached 2^53 is 2^52 with the next exponent
Renormalise(m, e) ==
    IF m = Two53 THEN [m |-> Two52, e |-> e + 1] ELSE [m |-> m, e |-> e]

RECURSIVE ScaleUp(_, _, _)
\* doubles x # 0 until it reaches limit, counting the exponent down; a whole
\* limb at a time while that stays below limit
ScaleUp(x, e, limit) ==
    IF BigLess(<<0>> \o x, limit) THEN ScaleUp(<<0>> \o x, e - LimbBits, limit)
    ELSE IF BigLess(x, limit) THEN ScaleUp(BigMul(x, 2), e - 1, limit)
    ELSE [x |-> x, e |-> e]

\* float(d) for the Decimal d = numerator / denominator: the nearest binary64
\* number, ties to the even significand
float(numerator, denominator) ==
    IF numerator = 0 THEN FloatZero
    ELSE LET scaled == ScaleUp(Big(numerator), 0, BigMul(Two52, denominator))
             d == BigDivMod(scaled.x, denominator)
             up == \/ 2 * d.r > denominator
                   \/ 2 * d.r = denominator /\ BigOdd(d.q)
         IN Renormalise(IF up THEN BigAdd(d.q, <<1>>) ELSE d.q, scaled.e)

RECURSIVE ScaleDown(_, _, _, _)
\* halves x until it is below 2^53; half is the last bit shifted out, sticky
\* tells whether a bit shifted out before it was set
ScaleDown(x, e, half, sticky) ==
    IF BigLess(x, Two53) THEN [x |-> x, e |-> e, half |-> half, sticky |-> sticky]
    ELSE LET d == BigDivMod(x, 2)
         IN ScaleDown(d.q, e + 1, d.r = 1, sticky \/ half)

\* x + y on floats: the exact sum rounded to the nearest binary64 number
FloatAdd(x, y) ==
    IF x.m = <<>> THEN y
    ELSE IF y.m = <<>> THEN x
    ELSE LET e == IF x.e < y.e THEN x.e ELSE y.e
             exact == BigAdd(ShiftLeft(x.m, x.e - e), ShiftLeft(y.m, y.e - e))
             s == ScaleDown(exact, e, FALSE, FALSE)
             up == s.half /\ (s.sticky \/ BigOdd(s.x))
         IN Renormalise(IF up THEN BigAdd(s.x, <<1>>) ELSE s.x, s.e)

RECURSIVE FloatSum(_)
\* sum(values) of Python over a sequence of floats, from the left
FloatSum(values) ==
    IF values = <<>> THEN FloatZero
    ELSE FloatAdd(FloatSum(SubSeq(values, 1, Len(values) - 1)), values[Len(values)])

FundingOrder ==
    <<"platform_maintenance", "owner_compensation", "reinvestment", "tax_reserve">>
FundingCategories == {FundingOrder[i] : i \in 1..Len(FundingOrder)}

funding_rules == [platform_maintenance |-> 10, owner_compensation |-> 30,
                  reinvestment |-> 40, tax_reserve |-> 20]

\* the arguments of an allocation computation: a Decimal or a float of so many
\* cents (SUM(amount) of SQLite is a float when it is no whole number), or an
\* int, a whole number of currency units
RevenueAmounts ==
    [type : {"Decimal", "float"}, cents : 0..MaxRevenue]
       \cup [type : {"int"}, cents : {100 * n : n \in 0..MaxRevenue}]

\* the row AutoFundingEngine._record_allocation inserts: float(amount) and
\* float(total_revenue)
AllocationRow(category, amount, total_revenue) ==
    [category |-> category, amount |-> amount, total_revenue |-> total_revenue,
     allocation_date |-> today,
     transfer_executed |-> 0]                        \* DEFAULT 0 (app.py:115)

\* AutoFundingEngine.process_revenue_allocation.  revenue_amount * percentage
\* raises TypeError when revenue_amount is a float, as percentage is a Decimal.
\* recorded are the categories whose INSERT in _record_allocation runs.
process_revenue_allocation(revenue_amount) ==
    /\ IF revenue_amount.type = "float"
       THEN /\ allocation_call' =
                 [engine |-> "AutoFundingEngine", revenue_amount |-> revenue_amount,
                  raised |-> "TypeError", returned |-> <<>>]
            /\ UNCHANGED revenue_allocations
       ELSE /\ LET allocation == [c \in FundingCategories |->
                                     revenue_amount.cents * funding_rules[c]]
                   total_revenue == float(revenue_amount.cents, 100)
               IN /\ allocation_call' =
                       [engine |-> "AutoFundingEngine",
                        revenue_amount |-> revenue_amount, raised |-> "",
                        returned |-> [c \in FundingCategories |->
                                         float(allocation[c], 100 * PayoutUnit)]]
                  /\ \E recorded \in SUBSET FundingCategories :
                        LET written == SelectSeq(FundingOrder, LAMBDA c : c \in recorded)
                        IN revenue_allocations' = revenue_allocations \o
                              [i \in 1..Len(written) |->
                                  AllocationRow(written[i],
                                                allocation_call'.returned[written[i]],
                                                total_revenue)]
    /\ UNCHANGED <<agentState, today, client_payments, payoutState, paymentState>>

\* a call of PayoutAgent._calculate_allocations with a Decimal of so many cents
calculate_allocations(total_revenue) ==
    /\ allocation_call' =
         [engine |-> "PayoutAgent",
          revenue_amount |-> [type |-> "Decimal", cents |-> total_revenue],
          raised |-> "", returned |-> _calculate_allocations(total_revenue)]
    /\ UNCHANGED <<agentState, today, client_payments, payoutState, paymentState,
                   revenue_allocations>>

AllocationNext ==
    \/ \E total_revenue \in 0..MaxRevenue : calculate_allocations(total_revenue)
    \/ \E revenue_amount \in RevenueAmounts :
          /\ revenue_amount.type # "float"
                => Len(revenue_allocations) + Len(FundingOrder) <= MaxAllocationRows
          /\ process_revenue_allocation(revenue_amount)

SpecAllocation == Init /\ [][AllocationNext]_vars

\* steps 1 and 2 of CostBytePlatform.run_daily_business_cycle.  The revenue of
\* the current month is SUM(amount) over client_payments, all of whose rows
\* are of one month here; SQLite answers an integer when every amount is a
\* whole number and a float otherwise.
run_daily_business_cycle ==
    LET current_revenue == SumAmount(client_payments)
        whole == \A i \in 1..Len(client_payments) : client_payments[i].amount % 100 = 0
    IN IF current_revenue > 0
       THEN process_revenue_allocation(
               [type |-> IF whole THEN "int" ELSE "float", cents |-> current_revenue])
       ELSE UNCHANGED vars

\* payments are ledgered and the daily business cycle runs
FundingNext ==
    \/ AdvanceDay
    \/ LedgerPayment
    \/ /\ Len(revenue_allocations) + Len(FundingOrder) <= MaxFundingRows
       /\ run_daily_business_cycle

SpecFunding == Init /\ [][FundingNext]_vars

\* the totals _calculate_allocations is called with, in cents: whole millions
\* of cents and a few cents more
CalculationTotals ==
    {m * 1000000 + u : m \in 0..MaxMillions, u \in 0..MaxRevenue}

CalculationNext ==
    \E total_revenue \in CalculationTotals : calculate_allocations(total_revenue)

SpecCalculation == Init /\ [][CalculationNext]_vars

(***************************************************************************)
(* LeadGenerator (src/ai_agents/lead_generator.py)                         *)
(***************************************************************************)
Company(name, industry, size, location) ==
    [name |-> name, industry |-> industry, size |-> size, location |-> location]

\* LeadGenerator._load_sa_companies
_load_sa_companies ==
    << Company("Tech Solutions SA", "Technology", "10-50", "Johannesburg"),
       Company("Digital Marketing Pros", "Marketing", "5-20", "Cape Town"),
       Company("Business Consultants CT", "Consulting", "10-30", "Cape Town"),
       Company("SA Ecommerce Store", "Retail", "15-40", "Durban"),
       Company("Innovation Labs SA", "Technology", "20-100", "Pretoria"),
       Company("Financial Advisors SA", "Finance", "5-15", "Johannesburg"),
       Company("Healthcare Solutions", "Healthcare", "10-25", "Cape Town"),
       Company("Legal Experts Inc", "Legal", "8-20", "Johannesburg"),
       Company("Construction Pros SA", "Construction", "15-50", "Durban"),
       Company("Hospitality Group", "Hospitality", "20-80", "Cape Town") >>

sa_companies == _load_sa_companies

\* dict.get(key, default) on a dictionary held as a function
Get(dict, key, default) == IF key \in DOMAIN dict THEN dict[key] ELSE default

Min(a, b) == IF a <= b THEN a ELSE b

industry_multipliers ==
    [x \in {"Technology", "Marketing"} |-> 2] @@
    [x \in {"Consulting", "Finance", "Healthcare", "Legal", "Retail"} |-> 1] @@
    [x \in {"Construction", "Hospitality"} |-> 0]

size_scores ==
    [x \in {"1-5"} |-> 0] @@ [x \in {"5-20"} |-> 1] @@ [x \in {"10-50", "100+"} |-> 2] @@
    [x \in {"20-100"} |-> 3]

\* LeadGenerator._calculate_lead_score
_calculate_lead_score(company) ==
    LET base == 5 + Get(industry_multipliers, company.industry, 0)
                  + Get(size_scores, company.size, 1)
        score == IF company.location \in {"Johannesburg", "Cape Town"}
                 THEN base + 1 ELSE base
    IN Min(score, 10)

RECURSIVE DecimalDigits(_)
\* the decimal digits of a natural number, most significant first
DecimalDigits(n) ==
    IF n < 10 THEN <<n>> ELSE Append(DecimalDigits(n \div 10), n % 10)

RECURSIVE ZeroPad(_, _)
\* the format specification 06d: zeros on the left up to the width, and every
\* digit of a longer number
ZeroPad(digits, width) ==
    IF Len(digits) >= width THEN digits ELSE ZeroPad(<<0>> \o digits, width)

\* f"lead_{n:06d}"
LeadId_Modulo(n) == <<"lead_">> \o ZeroPad(DecimalDigits(n % 2), 6)
LeadId(n) == <<"lead_">> \o ZeroPad(DecimalDigits(n), 6)

\* LeadGenerator.generate_leads; saved is whether the statements of
\* _save_leads_to_db ran, which logs and swallows their failure.  INSERT OR
\* REPLACE replaces the row of the same id.
generate_leads(target_companies, saved) ==
    LET companies_to_process == Min(target_companies, Len(sa_companies))
        generated == [i \in 1..companies_to_process |->
                        [id |-> LeadId(leads_generated + i),
                         company_name |-> sa_companies[i].name,
                         industry |-> sa_companies[i].industry,
                         size |-> sa_companies[i].size,
                         location |-> sa_companies[i].location,
                         lead_score |-> _calculate_lead_score(sa_companies[i]),
                         status |-> "new", priority |-> "medium",
                         source |-> "ai_generated"]]
        ids == {generated[i].id : i \in 1..Len(generated)}
    IN /\ leads_generated' = leads_generated + Len(generated)
       /\ leads' = IF saved
                   THEN {row \in leads : row.id \notin ids}
                          \cup {generated[i] : i \in 1..Len(generated)}
                   ELSE leads
       /\ leads_log' = Append(leads_log,
                          [target_companies |-> target_companies,
                           returned |-> generated])
       /\ UNCHANGED <<today, client_payments, payoutState, paymentState,
                      allocationState, fundingState>>

\* the numbers of leads generate_leads is asked for: none, fewer than there
\* are companies, as many, and more (50 is the default)
LeadTargets == {0, 1, 5, 10, 50}

LeadNext ==
    \E target_companies \in LeadTargets, saved \in BOOLEAN :
        /\ Len(leads_log) < MaxLeadCalls
        /\ generate_leads(target_companies, saved)

SpecLeads == Init /\ [][LeadNext]_vars

\* The daily schedule of payout_scheduler (app.py:408-421): process_daily_payouts
\* runs once every day, on a store whose queries run, while payments keep
\* arriving.  Cycle k is the cycle of day k - 1.
DailySelect == Len(cycle_log) = today /\ PayoutSelect(1, TRUE)

DailyExecute == \E bank \in [Banks -> BankAnswers] : PayoutExecute(1, bank)

DailyRecord == \E inserted \in 0..Len(CategoryOrder) : PayoutRecord(1, inserted)

\* the day ends after its cycle has returned
NextDay == today < MaxLateDay /\ Len(cycle_log) = today + 1 /\ pc[1] = "idle" /\ Tomorrow

LatePayment ==
    \E c \in Clients, a \in Amounts :
        Len(client_payments) < MaxLatePayments /\ record_client_payment(c, a)

DailyNext == NextDay \/ LatePayment \/ DailySelect \/ DailyExecute \/ DailyRecord

\* cycles keep running: the cycle of the day does start, a started cycle runs
\* to its end, and the day ends
SpecDaily ==
    /\ Init /\ [][DailyNext]_vars
    /\ WF_vars(DailySelect) /\ WF_vars(DailyExecute) /\ WF_vars(DailyRecord)
    /\ WF_vars(NextDay)

(***************************************************************************)
(* AutoFundingEngine.execute_funding_transfers (auto_funding.py:44-88),    *)
(* which funding_processor (app.py:190-198) calls once a day.              *)
(***************************************************************************)
\* the order in which GROUP BY category yields the groups: SQLite sorts them
TransferOrder ==
    <<"owner_compensation", "platform_maintenance", "reinvestment", "tax_reserve">>

\* the rows   WHERE category = ? AND transfer_executed = 0   matches
PendingRows(category) ==
    {i \in 1..Len(revenue_allocations) :
        /\ revenue_allocations[i].category = category
        /\ revenue_allocations[i].transfer_executed = 0}

\* SUM(amount) over the pending rows of a category, in id order
PendingTotal(category) ==
    LET rows == SelectSeq(revenue_allocations,
                          LAMBDA r : r.category = category /\ r.transfer_executed = 0)
    IN FloatSum([i \in 1..Len(rows) |-> rows[i].amount])

bank_accounts ==
    {"platform_maintenance", "owner_compensation", "reinvestment", "tax_reserve"}

\* AutoFundingEngine._execute_bank_transfer
_execute_bank_transfer(category, amount) == category \in bank_accounts

\* execute_funding_transfers up to fetchall().  cursor_ok is whether cursor()
\* and the SELECT run: the connection refuses a thread other than the one that
\* opened it (sqlite3.connect of app.py:61 keeps check_same_thread), and the
\* call then returns [] from its except branch.  rows is history: the rows
\* whose amounts total_amount sums.
FundingSelect(cursor_ok) ==
    /\ ~pending_transfers.active
    /\ IF cursor_ok
       THEN LET groups == SelectSeq(TransferOrder, LAMBDA c : PendingRows(c) # {})
            IN pending_transfers' =
                 [active |-> TRUE,
                  pending |-> [i \in 1..Len(groups) |->
                                  [category |-> groups[i],
                                   total_amount |-> PendingTotal(groups[i]),
                                   rows |-> PendingRows(groups[i])]]]
       ELSE UNCHANGED pending_transfers
    /\ UNCHANGED <<today, client_payments, payoutState, paymentState, allocationState,
                   leadState, funding_transfers>>

\* the UPDATE of a log entry's category marks every row of the category that
\* is pending when it runs
MarkExecuted(table, categories) ==
    [i \in 1..Len(table) |->
        IF table[i].category \in categories /\ table[i].transfer_executed = 0
        THEN [table[i] EXCEPT !.transfer_executed = 1]
        ELSE table[i]]

\* execute_funding_transfers from its loop to its return.  failing is the
\* position in pending_transfers of the entry whose UPDATE raises, 0 when none
\* does: the loop ends there and the call returns [] from its except branch,
\* after the transfer of that entry was executed.  The UPDATEs that ran before
\* stay in the open transaction of the connection, where every later statement
\* of the engine sees them.
FundingTransfer(failing) ==
    /\ pending_transfers.active
    /\ failing <= Len(pending_transfers.pending)
    /\ LET pending == pending_transfers.pending
           last == IF failing = 0 THEN Len(pending) ELSE failing
           success == [i \in 1..Len(pending) |->
                          _execute_bank_transfer(pending[i].category,
                                                 pending[i].total_amount)]
           transferred == SelectSeq([i \in 1..last |-> i], LAMBDA i : success[i])
           updated == {pending[i].category :
                          i \in {j \in 1..last : success[j] /\ j # failing}}
       IN /\ funding_transfers' = funding_transfers \o
                [k \in 1..Len(transferred) |-> pending[transferred[k]]]
          /\ revenue_allocations' = MarkExecuted(revenue_allocations, updated)
    /\ pending_transfers' = NoFundingCall
    /\ UNCHANGED <<today, client_payments, payoutState, paymentState, allocation_call,
                   leadState>>

\* the revenue the funding engine is given to allocate: whole currency units
TransferRevenues == {r \in RevenueAmounts : r.type = "int" /\ r.cents \in {1000, 1500}}

\* revenue is allocated and, one call at a time and after the allocation has
\* returned, transferred; statements of the store may fail
TransferNext ==
    \/ \E revenue_amount \in TransferRevenues :
          /\ ~pending_transfers.active
          /\ Len(revenue_allocations) + Len(FundingOrder) <= MaxAllocationRows
          /\ process_revenue_allocation(revenue_amount)
    \/ \E cursor_ok \in BOOLEAN :
          Len(funding_transfers) < MaxFundingTransfers /\ FundingSelect(cursor_ok)
    \/ \E failing \in 0..Len(FundingOrder) : FundingTransfer(failing)

SpecTransfer == Init /\ [][TransferNext]_vars

\* revenue is allocated while a transfer call runs; no statement fails
ConcurrentTransferNext ==
    \/ AdvanceDay
    \/ \E revenue_amount \in TransferRevenues :
          /\ Len(revenue_allocations) + Len(FundingOrder) <= MaxFundingRows
          /\ process_revenue_allocation(revenue_amount)
          /\ Len(revenue_allocations') = Len(revenue_allocations) + Len(FundingOrder)
    \/ Len(funding_transfers) < MaxFundingTransfers /\ FundingSelect(TRUE)
    \/ FundingTransfer(0)

SpecConcurrentTransfer == Init /\ [][ConcurrentTransferNext]_vars

Next ==
    PayoutNext \/ SequentialNext \/ PaymentNext \/ SettlementNext \/ ResolutionNext \/ RequestNext
        \/ DetailsNext \/ WebhookNext \/ AllocationNext \/ CalculationNext \/ FundingNext \/ LeadNext \/ DailyNext
        \/ TransferNext \/ ConcurrentTransferNext

Spec == Init /\ [][Next]_vars

(***************************************************************************)
(* Properties of the payout cycle.                                         *)
(***************************************************************************)

\* the step of process_daily_payouts that reads the available revenue
SelectStep == Len(cycle_log') = Len(cycle_log) + 1
NewCycle == cycle_log'[Len(cycle_log')]

\* C1: the amounts of all payout_transactions rows never sum to more than the
\* amounts of all client_payments rows (both in units of 1/10000)
C1_PayoutsWithinLedger ==
    SumAmount(payout_transactions) <= PayoutUnit * SumAmount(client_payments)

\* C2: two process_daily_payouts calls that are in flight together and are both
\* past the threshold test never hold the same client_payments row: one of two
\* concurrent calls allocates a pool, the other sees none of it
C2_ConcurrentCyclesDisjoint ==
    \A p, q \in Procs :
        (p # q /\ pc[p] # "idle" /\ pc[q] # "idle")
            => cycle[p].selected \cap cycle[q].selected = {}

\* the client_payments rows for which some cycle has written payout rows
CommittedPayments ==
    UNION {cycle_log[payout_transactions[i].cycle].selected :
              i \in 1..Len(payout_transactions)}

\* C3: a process_daily_payouts call never selects a client_payments row for
\* which an earlier cycle has already recorded its payout rows
C3_CommittedNeverReselected ==
    [][SelectStep => NewCycle.selected \cap CommittedPayments = {}]_vars

\* C9: a cycle whose available revenue is below minimum_payout returns the
\* below-threshold result at once and changes no table and calls no bank; no
\* payout row and no transfer ever belongs to such a cycle
C9_BelowThresholdNoOp ==
    /\ [](/\ \A i \in 1..Len(payout_transactions) :
               cycle_log[payout_transactions[i].cycle].available_revenue >= minimum_payout
          /\ \A i \in 1..Len(transfers) :
               cycle_log[transfers[i].cycle].available_revenue >= minimum_payout
          /\ \A c \in 1..Len(cycle_log) :
               cycle_log[c].available_revenue < minimum_payout
                  => cycle_log[c].result = "below_minimum")
    /\ [][(SelectStep /\ NewCycle.available_revenue < minimum_payout)
             => /\ NewCycle.result = "below_minimum"
                /\ pc' = pc
                /\ payout_transactions' = payout_transactions
                /\ client_payments' = client_payments
                /\ transfers' = transfers]_vars

\* witness of C9: a cycle found 999.99 of unpaid revenue and returned
C9_Witness ==
    \E c \in 1..Len(cycle_log) :
        /\ cycle_log[c].query_ok
        /\ cycle_log[c].available_revenue = 99999
        /\ cycle_log[c].result = "below_minimum"

\* the bank the configuration binds a category to (payout_agent.py:19-21)
IntendedBank(category) == IF category = "ai_fund" THEN "RNB" ELSE "FNB"

\* the step in which _record_payouts of caller p writes all its rows
RecordStep(p) ==
    /\ pc[p] = "executed" /\ pc'[p] = "idle"
    /\ Len(payout_transactions') = Len(payout_transactions) + Len(CategoryOrder)

\* the row of a category among the rows a RecordStep has added
NewRow(category) ==
    LET k == CHOOSE i \in 1..Len(CategoryOrder) : CategoryOrder[i] = category
    IN payout_transactions'[Len(payout_transactions) + k]

\* C7: when in a cycle the bank of category owner (A) answers success and the
\* bank of category ai_fund (B) is unavailable, the cycle records A's row as
\* completed and B's row as pending; and once A's row is completed no other
\* cycle writes a row for A from the same client payments
C7_PartialFailureIsolation ==
    /\ [][\A p \in Procs :
            (/\ RecordStep(p)
             /\ cycle[p].bank[IntendedBank("owner")] = "success"
             /\ cycle[p].bank[IntendedBank("ai_fund")] = "unavailable")
               => /\ NewRow("owner").status = "completed"
                  /\ NewRow("ai_fund").status = "pending"]_vars
    /\ [](\A i, j \in 1..Len(payout_transactions) :
            (/\ i # j
             /\ payout_transactions[i].category = "owner"
             /\ payout_transactions[j].category = "owner"
             /\ payout_transactions[i].status = "completed")
               => cycle_log[payout_transactions[i].cycle].selected
                     \cap cycle_log[payout_transactions[j].cycle].selected = {})

(***************************************************************************)
(* Properties of payment attempts and their settlement.                    *)
(***************************************************************************)

\* the payment_attempts rows a webhook delivery refers to
AttemptsOf(delivery) ==
    {i \in 1..Len(payment_attempts) :
        /\ payment_attempts[i].gateway = delivery.gateway
        /\ payment_attempts[i].gateway_reference = delivery.payload.reference}

\* the client_payments rows written for the payment of attempt i
PaymentsOf(i) ==
    {j \in 1..Len(client_payments) : client_payments[j].source_attempt = <<i>>}

\* a verified settlement webhook has been delivered for attempt i
WebhookSettled(i) ==
    /\ last_webhook # NULL
    /\ last_webhook.delivery.result
    /\ i \in AttemptsOf(last_webhook.delivery)

\* C4: after each delivery of a verified settlement webhook for an attempt (the
\* first and every replay) the attempt is completed and has exactly one
\* client_payments row
C4_WebhookIdempotent ==
    \A i \in 1..Len(payment_attempts) :
        WebhookSettled(i)
            => /\ payment_attempts[i].status = "completed"
               /\ Cardinality(PaymentsOf(i)) = 1

\* C5: every client_payments row has a source attempt, that attempt is
\* completed, and the row carries the attempt's amount
C5_PaymentsFromCompletedAttempts ==
    \A j \in 1..Len(client_payments) :
        /\ client_payments[j].source_attempt # NULL
        /\ LET a == payment_attempts[client_payments[j].source_attempt[1]]
           IN /\ a.status = "completed"
              /\ a.amount = client_payments[j].amount

\* C6: an attempt whose settlement was seen by a webhook (delivered up to three
\* times) or by the reconciliation poll, in any order, has made the transition
\* to completed once and has exactly one client_payments row
C6_SettlementRaceAppliedOnce ==
    \A i \in 1..Len(payment_attempts) :
        (i \in poll_log \/ (WebhookSettled(i) /\ last_webhook.deliveries <= 3))
            => /\ payment_attempts[i].status = "completed"
               /\ Cardinality(PaymentsOf(i)) = 1

\* C10: the status of every attempt is pending, completed or failed, and a
\* status only changes from pending to completed or from pending to failed
C10_AttemptStatusMachine ==
    /\ [](\A i \in 1..Len(payment_attempts) :
             payment_attempts[i].status \in {"pending", "completed", "failed"})
    /\ [][\A i \in 1..Len(payment_attempts) :
             payment_attempts'[i].status # payment_attempts[i].status
                => /\ payment_attempts[i].status = "pending"
                   /\ payment_attempts'[i].status \in {"completed", "failed"}]_vars

(***************************************************************************)
(* Properties of the allocation computations.                              *)
(***************************************************************************)

RECURSIVE SumAllocated(_, _)
\* the sum of the amounts a _calculate_allocations result holds for S
SumAllocated(allocations, S) ==
    IF S = {} THEN 0
    ELSE LET c == CHOOSE x \in S : TRUE
         IN allocations[c].amount + SumAllocated(allocations, S \ {c})

\* C8: every allocation computation returns amounts, and they sum to the total
\* revenue it was called with: exactly for the Decimal amounts of
\* _calculate_allocations, and to the float of the total for the floats of
\* process_revenue_allocation
C8_AllocationsSumToTotal ==
    allocation_call # NULL =>
        /\ allocation_call.raised = ""
        /\ IF allocation_call.engine = "PayoutAgent"
           THEN SumAllocated(allocation_call.returned, Categories)
                   = PayoutUnit * allocation_call.revenue_amount.cents
           ELSE FloatSum([i \in 1..Len(FundingOrder) |->
                             allocation_call.returned[FundingOrder[i]]])
                   = float(allocation_call.revenue_amount.cents, 100)

(***************************************************************************)
(* Resolution of pending attempts.                                         *)
(***************************************************************************)

\* C11: an attempt recorded as pending is eventually completed or failed, when
\* webhooks keep being delivered and the poll and the status query keep being
\* invoked
C11_PendingEventuallyResolved ==
    \A i \in 1..MaxAttempts :
        (i <= Len(payment_attempts) /\ payment_attempts[i].status = "pending")
            ~> (i <= Len(payment_attempts)
                  /\ payment_attempts[i].status \in {"completed", "failed"})

\* C12: once a category's payout row of a cycle is recorded failed, no later
\* cycle allocates and executes a payout for that category from the same client
\* payments
C12_FailedNotReattempted ==
    \A i, j \in 1..Len(payout_transactions) :
        (/\ payout_transactions[i].status = "failed"
         /\ payout_transactions[i].category = payout_transactions[j].category
         /\ payout_transactions[i].cycle < payout_transactions[j].cycle)
            => cycle_log[payout_transactions[i].cycle].selected
                 \cap cycle_log[payout_transactions[j].cycle].selected = {}

(***************************************************************************)
(* Allocation batches.                                                     *)
(***************************************************************************)

\* the rows a step appends to a table
Appended(table, table_after) == SubSeq(table_after, Len(table) + 1, Len(table_after))

\* a batch of revenue_allocations rows is whole: one row per category of
\* funding_rules, and the amounts sum to the total_revenue the rows carry
WholeFundingBatch(batch) ==
    /\ Len(batch) = Len(FundingOrder)
    /\ \A i \in 1..Len(batch) : batch[i].category = FundingOrder[i]
    /\ FloatSum([i \in 1..Len(batch) |-> batch[i].amount]) = batch[1].total_revenue

\* a batch of payout_transactions rows is whole: one row per category of
\* allocation_rules, and the amounts sum to the revenue the cycle selected
WholePayoutBatch(batch) ==
    /\ Len(batch) = Len(CategoryOrder)
    /\ \A i \in 1..Len(batch) : batch[i].category = CategoryOrder[i]
    /\ SumAmount(batch) = PayoutUnit * cycle_log[batch[1].cycle].available_revenue

\* C13: every step leaves the rows of an allocation batch either all absent or
\* all present, one per configured category, with amounts that sum to the source
\* total of the batch
C13_BatchAllOrNothing ==
    [][/\ LET batch == Appended(revenue_allocations, revenue_allocations')
          IN batch = <<>> \/ WholeFundingBatch(batch)
       /\ LET batch == Appended(payout_transactions, payout_transactions')
          IN batch = <<>> \/ WholePayoutBatch(batch)]_vars

(***************************************************************************)
(* Requests: recording, gateway failures and validation.                   *)
(***************************************************************************)

\* C15: whenever process_payment has called the gateway for a payment, a
\* payment_attempts row for that payment has been written
C15_AttemptWrittenBeforeGateway ==
    (last_call # NULL /\ last_call.gateway_call # "not called")
        => /\ last_call.attempt # NULL
           /\ last_call.attempt[1] \in 1..Len(payment_attempts)

\* C16: when the gateway call of process_payment returned an error result or
\* raised, the attempt is recorded and its status is pending
C16_GatewayFailureKeepsAttempt ==
    (last_call # NULL /\ last_call.gateway_call \in {"error", "raised"})
        => /\ last_call.attempt # NULL
           /\ payment_attempts[last_call.attempt[1]].status = "pending"

\* C19: process_payment with a method other than payfast, stripe and eft
\* returns the error of an unsupported method, calls no gateway and writes no
\* payment_attempts and no client_payments row
C19_UnsupportedMethodRejected ==
    (last_call # NULL /\ last_call.request.payment_method \notin {"payfast", "stripe", "eft"})
        => /\ ~last_call.success
           /\ last_call.error = "Unsupported payment method"
           /\ last_call.gateway_call = "not called"
           /\ last_call.attempt = NULL
           /\ ~last_call.billed

\* C20: process_payment with an amount that is not greater than zero fails
\* without calling a gateway or writing a row, and every payment_attempts row
\* has an amount greater than zero
C20_NonPositiveAmountRejected ==
    /\ (last_call # NULL /\ last_call.request.amount <= 0)
          => /\ ~last_call.success
             /\ last_call.gateway_call = "not called"
             /\ last_call.attempt = NULL
             /\ ~last_call.billed
    /\ \A i \in 1..Len(payment_attempts) : payment_attempts[i].amount > 0

(***************************************************************************)
(* Order of recording and transfer in a payout cycle.                      *)
(***************************************************************************)

\* the rows of payout_transactions a cycle has written for a category
RowsOf(id, category) ==
    {i \in 1..Len(payout_transactions) :
        payout_transactions[i].cycle = id /\ payout_transactions[i].category = category}

\* the step in which process p runs _execute_payouts
ExecuteStep(p) == pc[p] = "allocated" /\ pc'[p] = "executed"

\* C14: when a cycle runs its transfers, a row of every category is already
\* written for it, and every row that is written is written as pending
C14_RowPendingBeforeTransfer ==
    [][/\ \A p \in Procs :
             ExecuteStep(p) => \A c \in Categories : RowsOf(cycle[p].id, c) # {}
       /\ LET batch == Appended(payout_transactions, payout_transactions')
          IN \A i \in 1..Len(batch) : batch[i].status = "pending"]_vars

(***************************************************************************)
(* Rounding of allocated amounts.                                          *)
(***************************************************************************)

\* C17: every allocation computation gives each category but the last the
\* total times its percentage rounded to whole cents (halves to even), and
\* gives the last category the total minus those rounded amounts
C17_RoundedLastAbsorbs ==
    (allocation_call # NULL /\ allocation_call.raised = "") =>
        LET payout == allocation_call.engine = "PayoutAgent"
            order == IF payout THEN CategoryOrder ELSE FundingOrder
            total == allocation_call.revenue_amount.cents
            percent(i) == IF payout THEN allocation_rules[order[i]]
                          ELSE funding_rules[order[i]]
            rounded(i) ==
                LET q == (total * percent(i)) \div 100
                    r == (total * percent(i)) % 100
                IN IF 2 * r < 100 \/ (2 * r = 100 /\ q % 2 = 0) THEN q ELSE q + 1
            RECURSIVE before(_)
            before(i) == IF i = 1 THEN 0 ELSE before(i - 1) + rounded(i - 1)
            cents(i) == IF i < Len(order) THEN rounded(i) ELSE total - before(i)
        IN \A i \in 1..Len(order) :
              IF payout
              THEN allocation_call.returned[order[i]].amount = PayoutUnit * cents(i)
              ELSE allocation_call.returned[order[i]] = float(cents(i), 100)

(***************************************************************************)
(* Validation of payment details.                                          *)
(***************************************************************************)

\* the request names a supported method and its details lack a key the
\* validator of that method requires
LacksRequired(request) ==
    \/ request.payment_method = "payfast" /\ ~(PayfastRequired \subseteq request.keys)
    \/ request.payment_method = "eft" /\ ~(EftRequired \subseteq request.keys)
    \/ /\ request.payment_method = "stripe"
       /\ request.keys \cap {"payment_method_id", "setup_future_usage"} = {}

\* C21: a process_payment call whose details lack a required field of the
\* chosen method returns a failure, calls no gateway and leaves payment_attempts
\* and client_payments as they were
C21_MalformedDetailsRejected ==
    [][(last_call' # NULL /\ LacksRequired(last_call'.request))
          => /\ ~last_call'.success
             /\ last_call'.gateway_call = "not called"
             /\ last_call'.attempt = NULL /\ ~last_call'.billed
             /\ payment_attempts' = payment_attempts
             /\ client_payments' = client_payments
             /\ stripe_intents' = stripe_intents]_vars

\* a call with malformed details was made after an attempt had been recorded
C21_Witness ==
    /\ last_call # NULL /\ LacksRequired(last_call.request)
    /\ last_call.error = "Invalid payment details"
    /\ Len(payment_attempts) > 0

(***************************************************************************)
(* Webhooks that do not verify.                                            *)
(***************************************************************************)

\* the delivery is one the handler must refuse: the gateway is unknown, the
\* payload is malformed or the signature is not the one of the payload
Unverifiable(delivery) ==
    \/ delivery.gateway \notin {"payfast", "stripe"}
    \/ delivery.payload = MalformedPayload
    \/ delivery.signature
         # _generate_signature(delivery.payload, GatewaySecret(delivery.gateway))

\* C22: every handle_payment_webhook call returns a boolean; it returns false
\* for an unknown gateway, a malformed payload and a signature that does not
\* verify, and then payment_attempts and client_payments are as they were
C22_WebhookRefusesUnverifiable ==
    [][last_webhook' # last_webhook =>
          /\ last_webhook'.delivery.result \in BOOLEAN
          /\ Unverifiable(last_webhook'.delivery) =>
                /\ last_webhook'.delivery.result = FALSE
                /\ payment_attempts' = payment_attempts
                /\ client_payments' = client_payments]_vars

\* a PayFast notification that reports a recorded payment as complete was
\* delivered with a forged signature and refused
C22_Witness ==
    /\ last_webhook # NULL
    /\ last_webhook.delivery.gateway = "payfast"
    /\ last_webhook.delivery.payload.payment_status = "COMPLETE"
    /\ Unverifiable(last_webhook.delivery)
    /\ last_webhook.delivery.result = FALSE
    /\ \E i \in 1..Len(payment_attempts) :
          payment_attempts[i].gateway_reference = last_webhook.delivery.payload.reference

\* C27: a verified webhook whose reference is the gateway_reference of no
\* payment_attempts row is not reported as handled
C27_UnknownReferenceRefused ==
    (/\ last_webhook # NULL
     /\ ~Unverifiable(last_webhook.delivery)
     /\ \A i \in 1..Len(payment_attempts) :
           payment_attempts[i].gateway_reference
              # last_webhook.delivery.payload.reference)
        => last_webhook.delivery.result = FALSE

(***************************************************************************)
(* The execute phase of a payout cycle.                                    *)
(***************************************************************************)

\* the transfer_funds calls a cycle made for a category
TransfersOf(id, category) ==
    {i \in 1..Len(transfers) :
        transfers[i].cycle = id /\ transfers[i].category = category}

\* C23: when a cycle has run _execute_payouts, a transfer was attempted for
\* every category whatever became of the others, and every category whose
\* transfer the bank accepted has a successful result
C23_TransfersIndependent ==
    \A p \in Procs :
        pc[p] = "executed" =>
            \A c \in Categories :
                /\ TransfersOf(cycle[p].id, c) # {}
                /\ \A i \in TransfersOf(cycle[p].id, c) :
                      transfers[i].answer = "success" => cycle[p].payout_results[c].success

\* C24: when a cycle has run _execute_payouts, every category has exactly one
\* transfer, made with the client of the bank of its destination account (FNB
\* for owner and reserve, RNB for ai_fund) and with its allocated amount
C24_TransferToBoundBank ==
    \A p \in Procs :
        pc[p] = "executed" =>
            \A c \in Categories :
                /\ Cardinality(TransfersOf(cycle[p].id, c)) = 1
                /\ \A i \in TransfersOf(cycle[p].id, c) :
                      /\ transfers[i].bank = IntendedBank(c)
                      /\ transfers[i].amount = cycle[p].allocations[c].amount

\* C28: every process_daily_payouts call that ran the execute phase returned a
\* result that holds the outcome of the transfer of every category
C28_ResultPerCategory ==
    \A k \in 1..Len(cycle_log) :
        cycle_log[k].result = "success" =>
            /\ DOMAIN cycle_log[k].returned.payout_results = Categories
            /\ \A c \in Categories :
                  cycle_log[k].returned.payout_results[c].success \in BOOLEAN

\* a call ran the execute phase, recorded its rows and returned
C28_Witness ==
    \E k \in 1..Len(cycle_log) :
        /\ cycle_log[k].result = "success"
        /\ cycle_log[k].returned # NULL
        /\ \A c \in Categories : RowsOf(k, c) # {}

(***************************************************************************)
(* The amounts of the payout allocation.                                   *)
(***************************************************************************)

\* C25: _calculate_allocations gives every category the total times its
\* percentage of the table; for 100,000.00 that is 60,000.00 for owner and
\* 20,000.00 each for ai_fund and reserve
C25_AmountIsTotalTimesPercentage ==
    (allocation_call # NULL /\ allocation_call.engine = "PayoutAgent") =>
        LET total == allocation_call.revenue_amount.cents
            amount(c) == allocation_call.returned[c].amount
        IN \* cents times percent is the amount in hundredths of a cent
           /\ \A c \in Categories : amount(c) = total * allocation_rules[c]
           /\ total = 10000000 =>
                 /\ amount("owner") = PayoutUnit * 6000000
                 /\ amount("ai_fund") = PayoutUnit * 2000000
                 /\ amount("reserve") = PayoutUnit * 2000000

\* the allocation of 100,000.00 was computed
C25_Witness ==
    /\ allocation_call # NULL
    /\ allocation_call.engine = "PayoutAgent"
    /\ allocation_call.revenue_amount.cents = 10000000
    /\ allocation_call.raised = ""

(***************************************************************************)
(* Gateway references.                                                     *)
(***************************************************************************)

\* C26: no two payment_attempts rows of the same gateway have the same
\* gateway_reference
C26_GatewayReferenceUnique ==
    \A i, j \in 1..Len(payment_attempts) :
        (i # j /\ payment_attempts[i].gateway = payment_attempts[j].gateway)
            => payment_attempts[i].gateway_reference
                 # payment_attempts[j].gateway_reference

(***************************************************************************)
(* Synchronous settlement in process_payment.                              *)
(***************************************************************************)

\* C29: a process_payment call writes a client_payments row only together with
\* an attempt it records as completed; a call whose attempt is recorded as
\* pending, as every EFT call is, writes no client_payments row
C29_BilledOnlyWhenCompleted ==
    last_call # NULL =>
        /\ last_call.billed =>
              /\ last_call.attempt # NULL
              /\ payment_attempts[last_call.attempt[1]].status = "completed"
        /\ (/\ last_call.attempt # NULL
            /\ payment_attempts[last_call.attempt[1]].status = "pending")
              => ~last_call.billed

(***************************************************************************)
(* Allocation by the funding engine against the ledger.                    *)
(***************************************************************************)

\* C30: the amounts of all revenue_allocations rows sum to no more than the
\* amounts of all client_payments rows
C30_FundingWithinLedger ==
    LET allocated == FloatSum([i \in 1..Len(revenue_allocations) |->
                                  revenue_allocations[i].amount])
        ledgered == float(SumAmount(client_payments), 100)
    IN \/ allocated = FloatZero
       \/ /\ ledgered # FloatZero
          /\ \/ allocated.e < ledgered.e
             \/ allocated.e = ledgered.e /\ ~BigLess(ledgered.m, allocated.m)

(***************************************************************************)
(* Properties of the lead generator.                                       *)
(***************************************************************************)
\* every lead the generator has returned, as <<call, position>>
ReturnedLeads ==
    {x \in (1..Len(leads_log)) \X (1..Len(sa_companies)) :
        x[2] <= Len(leads_log[x[1]].returned)}

\* C31: generate_leads(target_companies) returns at most target_companies leads
\* for every target_companies >= 0, each with a company_name and a lead_score,
\* and over the calls made on one generator no two returned leads share an id.
C31_LeadsBoundedAndDistinct ==
    /\ \A k \in 1..Len(leads_log) :
          /\ leads_log[k].target_companies >= 0
                => Len(leads_log[k].returned) <= leads_log[k].target_companies
          /\ \A i \in 1..Len(leads_log[k].returned) :
                {"company_name", "lead_score"} \subseteq DOMAIN leads_log[k].returned[i]
    /\ \A x, y \in ReturnedLeads :
          x # y => leads_log[x[1]].returned[x[2]].id # leads_log[y[1]].returned[y[2]].id

\* two calls have returned leads, one of them asked for more than there are
\* companies
C31_Witness ==
    \E k, l \in 1..Len(leads_log) :
        /\ k < l
        /\ Len(leads_log[k].returned) > 0
        /\ Len(leads_log[l].returned) > 0
        /\ leads_log[l].target_companies > Len(sa_companies)

\* C32: process_daily_payouts returns the below-threshold result exactly when
\* the available revenue is less than minimum_payout; with exactly 1000.00
\* available the cycle goes on to compute the allocations of 1000.00 and then
\* runs _execute_payouts on them
C32_ThresholdIsStrict ==
    /\ [](\A c \in 1..Len(cycle_log) :
             cycle_log[c].result = "below_minimum"
                <=> cycle_log[c].available_revenue < minimum_payout)
    /\ [][\A p \in Procs :
            /\ (SelectStep /\ pc[p] = "idle" /\ pc'[p] # "idle")
                  => /\ NewCycle.available_revenue >= minimum_payout
                     /\ pc'[p] = "allocated"
                     /\ cycle'[p].allocations
                           = _calculate_allocations(NewCycle.available_revenue)
            /\ (SelectStep /\ NewCycle.available_revenue = minimum_payout)
                  => \E q \in Procs : pc[q] = "idle" /\ pc'[q] = "allocated"
            /\ ExecuteStep(p)
                  => /\ DOMAIN cycle'[p].payout_results = Categories
                     /\ cycle'[p].allocations = cycle[p].allocations]_vars

\* witness of C32: a cycle that found exactly 1000.00 has executed its payouts
C32_Witness ==
    \E p \in Procs :
        /\ pc[p] = "executed"
        /\ cycle[p].available_revenue = minimum_payout
        /\ cycle_log[cycle[p].id].available_revenue = minimum_payout
        /\ DOMAIN cycle[p].payout_results = Categories

\* what _execute_payouts of the cycle of a row stored for the row's category
ResultOf(row) == cycle_log[row.cycle].returned.payout_results[row.category]

\* C33: once a cycle has recorded its results, the row of a category is
\* completed if and only if the transfer of that category returned success in
\* that cycle, a completed row stores the reference the bank returned, and the
\* row of a category whose transfer did not succeed is not completed
C33_CompletedIffTransferSucceeded ==
    \A i \in 1..Len(payout_transactions) :
        LET row == payout_transactions[i]
        IN /\ cycle_log[row.cycle].result = "success"
           /\ row.status = "completed" <=> ResultOf(row).success
           /\ row.status = "completed"
                 => /\ row.reference = ResultOf(row).reference
                    /\ \E k \in 1..Len(transfers) :
                          /\ transfers[k].cycle = row.cycle
                          /\ transfers[k].category = row.category
                          /\ transfers[k].answer = "success"
           /\ ~ResultOf(row).success => row.status = "failed"

\* witness of C33: a cycle has recorded a row for every category, the transfer
\* of none of which returned success
C33_Witness ==
    \E c \in 1..Len(cycle_log) :
        /\ cycle_log[c].result = "success"
        /\ \A category \in Categories :
              /\ ~cycle_log[c].returned.payout_results[category].success
              /\ \E i \in 1..Len(payout_transactions) :
                    /\ payout_transactions[i].cycle = c
                    /\ payout_transactions[i].category = category
                    /\ payout_transactions[i].status = "failed"

\* C36: a process_payment call that returns success False has written no
\* client_payments row, and a call that has written a client_payments row has
\* also written the payment_attempts row of that payment, also when the INSERT
\* of _record_payment_attempt fails
C36_ResultConsistentWithLedger ==
    last_call # NULL =>
        /\ ~last_call.success => ~last_call.billed
        /\ last_call.billed =>
              /\ last_call.attempt # NULL
              /\ last_call.attempt[1] \in 1..Len(payment_attempts)

\* C37: a cycle whose available-revenue query fails submits no bank transfer
\* and writes no payout row: the call returns the below-threshold result in
\* the same step, and no row and no transfer ever belongs to that cycle
C37_QueryFailureMovesNoMoney ==
    /\ [](\A c \in 1..Len(cycle_log) :
             ~cycle_log[c].query_ok
                => /\ cycle_log[c].result = "below_minimum"
                   /\ \A i \in 1..Len(payout_transactions) :
                         payout_transactions[i].cycle # c
                   /\ \A k \in 1..Len(transfers) : transfers[k].cycle # c
                   /\ \A p \in Procs : cycle[p].id # c)
    /\ [][(SelectStep /\ ~NewCycle.query_ok)
             => /\ payout_transactions' = payout_transactions
                /\ transfers' = transfers
                /\ client_payments' = client_payments
                /\ pc' = pc]_vars

\* witness of C37: the query of a cycle failed and the call returned the
\* below-threshold result; on the same store, which holds 1000.00 or more of
\* ledgered revenue, a later cycle has run to its end
C37_Witness ==
    \E c, later \in 1..Len(cycle_log) :
        /\ c < later
        /\ ~cycle_log[c].query_ok
        /\ cycle_log[c].result = "below_minimum"
        /\ cycle_log[later].result = "success"
        /\ SumAmount(client_payments) >= minimum_payout

(***************************************************************************)
(* Ledgered revenue against the selection window.                          *)
(***************************************************************************)
\* the client payments some cycle that went on to pay out has selected
IncludedPayments ==
    UNION {cycle_log[c].selected :
              c \in {k \in 1..Len(cycle_log) : cycle_log[k].result # "below_minimum"}}

\* the client payments no payout has included yet
UnpaidPayments == (1..Len(client_payments)) \ IncludedPayments

TransfersIncluding(row) ==
    {k \in 1..Len(funding_transfers) : row \in funding_transfers[k].rows}

\* the step in which execute_funding_transfers runs its loop and returns
TransferStep == pending_transfers.active /\ ~pending_transfers'.active

\* C34: execute_funding_transfers retries pending allocations only: the amount
\* of a revenue_allocations row is part of at most one successful transfer,
\* and a call that found no row with transfer_executed = 0 executes no
\* transfer and changes no row
C34_PendingTransferredOnce ==
    /\ [](\A row \in 1..Len(revenue_allocations) :
             Cardinality(TransfersIncluding(row)) <= 1)
    /\ [][(TransferStep /\ pending_transfers.pending = <<>>)
             => /\ funding_transfers' = funding_transfers
                /\ revenue_allocations' = revenue_allocations]_vars

\* C35: a revenue_allocations row has transfer_executed = 1 only if its amount
\* was part of the total of its category that a successful transfer was
\* executed with, also when rows are inserted between the SELECT and the
\* UPDATE of a running execute_funding_transfers; and a transfer that fails
\* leaves the rows of its category pending
C35_MarkedOnlyIfTransferred ==
    /\ [](\A row \in 1..Len(revenue_allocations) :
             revenue_allocations[row].transfer_executed = 1
                => \E k \in TransfersIncluding(row) :
                      funding_transfers[k].category = revenue_allocations[row].category)
    /\ [][TransferStep
             => \A i \in 1..Len(pending_transfers.pending) :
                   LET entry == pending_transfers.pending[i]
                   IN ~_execute_bank_transfer(entry.category, entry.total_amount)
                         => \A row \in entry.rows :
                               revenue_allocations'[row].transfer_executed = 0]_vars

============================================================================
